---- MODULE Spec2Model ----
(***************************************************************************)
(* Model of case_common.py: the CaseChangeTracker (state file, change      *)
(* detection across whole record / fields / tabs, text diff) and the       *)
(* main() loop that drives it once per process.                            *)
(*                                                                         *)
(* Python values are encoded as follows.  None is the string "None";       *)
(* a dict with string keys whose order is irrelevant (case_data, tabs,     *)
(* tabs_hashes, tabs_content) is a function; a dict whose insertion order  *)
(* is observable (tracker state, written entry by entry to the file) is a  *)
(* sequence of <<key, value>> pairs; a text line is a sequence of          *)
(* characters; an md5 digest is the tagged preimage (collision free).      *)
(***************************************************************************)
EXTENDS Integers, Sequences, FiniteSets, TLC

VARIABLES
    file,                 \* the state file case_state.json on disk
    clock,                \* datetime.now()
    pc,                   \* position of the process in main()
    run,                  \* number of processes started so far
    order,                \* iteration order of str sets in this process (hash seed)
    previous_state,       \* tracker.previous_state
    current_state,        \* tracker.current_state
    case_links,           \* case_links in main()
    i,                    \* loop index in main() (1-based, next link to process)
    results,              \* results in main()
    all_changes,          \* all_changes in main()
    all_detailed_changes, \* all_detailed_changes in main()
    save_pos,             \* number of state entries json.dump has written so far
    loaded_file,          \* the file as it was when this process loaded it
    observed              \* history: identity -> its summary in the latest completed save

vars == <<file, clock, pc, run, order, previous_state, current_state, case_links,
          i, results, all_changes, all_detailed_changes, save_pos, loaded_file,
          observed>>

(***************************************************************************)
(* Bounds                                                                  *)
(***************************************************************************)
MaxRuns == 2
MaxLinks == 2

None == "None"

Urls == {"u1", "u2"}

TabIds == {"1", "2"}

\* the tab identifiers in ascending (string) order
SortedTabIds == <<"1", "2">>

(***************************************************************************)
(* Generic helpers                                                         *)
(***************************************************************************)
RECURSIVE SeqsOver(_, _)
SeqsOver(S, n) ==
    IF n = 0 THEN {<<>>}
    ELSE LET shorter == SeqsOver(S, n - 1)
         IN shorter \cup {Append(s, x) : s \in {t \in shorter : Len(t) = n - 1}, x \in S}

Perms(S) == {s \in SeqsOver(S, Cardinality(S)) :
                Len(s) = Cardinality(S) /\ {s[k] : k \in 1..Len(s)} = S}

RECURSIVE Concat(_)
Concat(ss) == IF ss = <<>> THEN <<>> ELSE Head(ss) \o Concat(Tail(ss))

\* dict.get(k, default) on an order-irrelevant dict
Get(d, k, default) == IF k \in DOMAIN d THEN d[k] ELSE default

\* Python truthiness of an optional string
Truthy(v) == v \notin {None, ""}

\* insertion-ordered dict: key in d, d[key], d[key] = value
DictHas(d, k) == \E n \in 1..Len(d) : d[n][1] = k
DictGet(d, k) == d[CHOOSE n \in 1..Len(d) : d[n][1] = k][2]
DictSet(d, k, v) ==
    IF DictHas(d, k)
    THEN [n \in 1..Len(d) |-> IF d[n][1] = k THEN <<k, v>> ELSE d[n]]
    ELSE Append(d, <<k, v>>)
DictKeys(d) == {d[n][1] : n \in 1..Len(d)}

\* "for x in some_set": the elements of S in the iteration order ord that
\* the process's string hash seed gives its sets
SetIter(ord, S) == SelectSeq(ord, LAMBDA t : t \in S)

(***************************************************************************)
(* Hasher                                                                  *)
(***************************************************************************)
calculate_content_hash(content) == <<"md5", content>>

(***************************************************************************)
(* Text differ                                                             *)
(***************************************************************************)
StartsWith(line, prefix) ==
    Len(line) >= Len(prefix) /\ SubSeq(line, 1, Len(prefix)) = prefix

RECURSIVE LStrip(_)
LStrip(line) == IF line # <<>> /\ Head(line) = " " THEN LStrip(Tail(line)) ELSE line

RECURSIVE RStrip(_)
RStrip(line) ==
    IF line # <<>> /\ line[Len(line)] = " "
    THEN RStrip(SubSeq(line, 1, Len(line) - 1)) ELSE line

Strip(line) == RStrip(LStrip(line))

\* BeautifulSoup get_text + whitespace normalisation: the markup is dropped,
\* the visible text (here already split into lines) is kept
extract_text_content(html_content) == html_content.text

\* difflib.SequenceMatcher.find_longest_match: longest block, then earliest
\* in a, then earliest in b; k = 0 when nothing matches
LongestMatch(a, b) ==
    LET blocks == {m \in (1..Len(a)) \X (1..Len(b)) \X (1..Len(a)) :
                      /\ m[1] + m[3] - 1 <= Len(a)
                      /\ m[2] + m[3] - 1 <= Len(b)
                      /\ SubSeq(a, m[1], m[1] + m[3] - 1) = SubSeq(b, m[2], m[2] + m[3] - 1)}
        Better(m, n) == \/ m[3] > n[3]
                        \/ m[3] = n[3] /\ m[1] < n[1]
                        \/ m[3] = n[3] /\ m[1] = n[1] /\ m[2] <= n[2]
    IN IF blocks = {} THEN <<0, 0, 0>>
       ELSE CHOOSE m \in blocks : \A n \in blocks : Better(m, n)

\* the body of the single hunk of a unified diff (context covers short texts)
RECURSIVE HunkLines(_, _)
HunkLines(a, b) ==
    LET m == LongestMatch(a, b)
    IN IF m[3] = 0
       THEN [k \in 1..Len(a) |-> <<"-">> \o a[k]] \o [k \in 1..Len(b) |-> <<"+">> \o b[k]]
       ELSE HunkLines(SubSeq(a, 1, m[1] - 1), SubSeq(b, 1, m[2] - 1))
            \o [k \in 1..m[3] |-> <<" ">> \o a[m[1] + k - 1]]
            \o HunkLines(SubSeq(a, m[1] + m[3], Len(a)), SubSeq(b, m[2] + m[3], Len(b)))

unified_diff(old_lines, new_lines) ==
    IF old_lines = new_lines THEN <<>>
    ELSE << <<"-", "-", "-", " ", "previous">>,
            <<"+", "+", "+", " ", "current">>,
            <<"@", "@">> >> \o HunkLines(old_lines, new_lines)

RECURSIVE compare_lines(_)
compare_lines(diff) ==
    IF diff = <<>> THEN <<>>
    ELSE LET line == Head(diff)
             rest == compare_lines(Tail(diff))
         IN IF StartsWith(line, <<"+">>) /\ ~StartsWith(line, <<"+", "+", "+">>)
            THEN << <<"Added">> \o Strip(Tail(line)) >> \o rest
            ELSE IF StartsWith(line, <<"-">>) /\ ~StartsWith(line, <<"-", "-", "-">>)
            THEN << <<"Removed">> \o Strip(Tail(line)) >> \o rest
            ELSE rest

compare_text_content(old_text, new_text) == compare_lines(unified_diff(old_text, new_text))

(***************************************************************************)
(* Parsing collaborator: a page is what get_content returned for a link    *)
(***************************************************************************)
parse_tab_content(page, tab_number) ==
    IF tab_number = "1"
    THEN [judge |-> page.judge, date_of_receipt |-> page.date_of_receipt,
          result_of_consideration |-> page.result_of_consideration]
    ELSE [tab_type |-> tab_number, content_present |-> TRUE]

parse_all_tabs(page, now) ==
    [t \in DOMAIN page.tabs |->
        [raw_content |-> page.tabs[t],
         parsed_data |-> parse_tab_content(page, t),
         parsing_timestamp |-> now]]

parse_case_data(page, now) ==
    LET base == [sub_category |-> page.sub_category,
                 instance |-> page.instance,
                 case_number |-> page.case_number,
                 material_number |-> page.material_number,
                 tabs |-> parse_all_tabs(page, now),
                 parsing_timestamp |-> now,
                 parsing_success |-> TRUE]
        tab1 == [judge |-> page.judge,
                 date_of_receipt |-> page.date_of_receipt,
                 result_of_consideration |-> page.result_of_consideration]
    IN IF "1" \in DOMAIN page.tabs
       THEN [k \in DOMAIN base \cup DOMAIN tab1 |->
                IF k \in DOMAIN tab1 THEN tab1[k] ELSE base[k]]
       ELSE base

(***************************************************************************)
(* Change detector                                                         *)
(***************************************************************************)
fields_to_check == <<"sub_category", "instance", "material_number",
                     "judge", "date_of_receipt", "result_of_consideration">>

field_names ==
    [sub_category |-> "Case category", instance |-> "Instance",
     material_number |-> "Material number", case_number |-> "Case number",
     judge |-> "Judge", date_of_receipt |-> "Date of receipt",
     result_of_consideration |-> "Result of consideration"]

get_field_name(field) == Get(field_names, field, field)

get_field_change_message(field, previous_value, current_value) ==
    IF previous_value = None /\ current_value # None
    THEN <<get_field_name(field), "added", current_value>>
    ELSE IF current_value = None /\ previous_value # None
    THEN <<get_field_name(field), "removed", previous_value>>
    ELSE IF previous_value # None /\ current_value # None
    THEN <<get_field_name(field), "changed", previous_value, current_value>>
    ELSE <<get_field_name(field), "undefined change">>

\* a summary whose content_hash covers the tabs only
StateEntry_hash_of_tabs(case_data, now) ==
    LET tabs == Get(case_data, "tabs", <<>>)
    IN [last_check |-> now,
        case_number |-> Get(case_data, "case_number", "N/A"),
        content_hash |-> calculate_content_hash(tabs),
        tabs_hashes |-> [t \in DOMAIN tabs |->
                            calculate_content_hash(Get(tabs[t], "raw_content", ""))],
        tabs_content |-> [t \in DOMAIN tabs |-> Get(tabs[t], "raw_content", "")],
        case_data |-> case_data]

\* the summary stored in current_state[case_key]
StateEntry(case_data, now) ==
    LET tabs == Get(case_data, "tabs", <<>>)
    IN [last_check |-> now,
        case_number |-> Get(case_data, "case_number", "N/A"),
        content_hash |-> calculate_content_hash(case_data),
        tabs_hashes |-> [t \in DOMAIN tabs |->
                            calculate_content_hash(Get(tabs[t], "raw_content", ""))],
        tabs_content |-> [t \in DOMAIN tabs |-> Get(tabs[t], "raw_content", "")],
        case_data |-> case_data]

new_case_change(case_url, case_number, now) ==
    << [type |-> "new_case", case_url |-> case_url, case_number |-> case_number,
        timestamp |-> now, message |-> <<"new case found">>,
        details |-> << <<"case added to monitoring">> >>] >>

\* case_number_change that also wants a current case number
case_number_change_both(case_url, case_number, prev_state, now) ==
    LET prev_case_number == Get(prev_state, "case_number", None)
    IN IF Truthy(prev_case_number) /\ Truthy(case_number) /\ case_number # prev_case_number
       THEN << [type |-> "case_number_changed", case_url |-> case_url,
                previous_case_number |-> prev_case_number,
                current_case_number |-> case_number,
                timestamp |-> now, message |-> <<"case number changed">>,
                details |-> << <<"case number changed from", prev_case_number,
                                 "to", case_number>> >>] >>
       ELSE <<>>

case_number_change(case_url, case_number, prev_state, now) ==
    LET prev_case_number == Get(prev_state, "case_number", None)
    IN IF Truthy(prev_case_number) /\ case_number # prev_case_number
       THEN << [type |-> "case_number_changed", case_url |-> case_url,
                previous_case_number |-> prev_case_number,
                current_case_number |-> case_number,
                timestamp |-> now, message |-> <<"case number changed">>,
                details |-> << <<"case number changed from", prev_case_number,
                                 "to", case_number>> >>] >>
       ELSE <<>>

\* field_change that reports a value only when there was one before
field_change_needs_old(case_url, case_number, field, current_data, prev_data, now) ==
    LET current_value == Get(current_data, field, None)
        previous_value == Get(prev_data, field, None)
    IN IF previous_value # None /\ current_value # previous_value
       THEN << [type |-> "field_changed", case_url |-> case_url,
                case_number |-> case_number, field |-> field,
                previous_value |-> previous_value, current_value |-> current_value,
                timestamp |-> now, message |-> <<"field changed", get_field_name(field)>>,
                details |-> <<get_field_change_message(field, previous_value,
                                                       current_value)>>] >>
       ELSE <<>>

field_change(case_url, case_number, field, current_data, prev_data, now) ==
    LET current_value == Get(current_data, field, None)
        previous_value == Get(prev_data, field, None)
    IN IF current_value # previous_value
       THEN << [type |-> "field_changed", case_url |-> case_url,
                case_number |-> case_number, field |-> field,
                previous_value |-> previous_value, current_value |-> current_value,
                timestamp |-> now, message |-> <<"field changed", get_field_name(field)>>,
                details |-> <<get_field_change_message(field, previous_value,
                                                       current_value)>>] >>
       ELSE <<>>

check_field_changes(case_url, case_number, current_data, prev_state, now) ==
    LET prev_data == Get(prev_state, "case_data", <<>>)
    IN Concat([k \in 1..Len(fields_to_check) |->
                 field_change(case_url, case_number, fields_to_check[k],
                              current_data, prev_data, now)])

content_change(case_url, case_number, prev_state, entry, now) ==
    IF Get(prev_state, "content_hash", None) # entry.content_hash
    THEN << [type |-> "content_changed", case_url |-> case_url,
             case_number |-> case_number, timestamp |-> now,
             message |-> <<"case content changed">>,
             details |-> << <<"general changes in the case structure">> >>] >>
    ELSE <<>>

new_tab_changes(ord, case_url, case_number, prev_tabs, curr_tabs, now) ==
    LET new_tabs == SetIter(ord, DOMAIN curr_tabs \ DOMAIN prev_tabs)
    IN [k \in 1..Len(new_tabs) |->
          [type |-> "new_tab", case_url |-> case_url, case_number |-> case_number,
           tab_number |-> new_tabs[k], timestamp |-> now,
           message |-> <<"new tab added", new_tabs[k]>>,
           details |-> << <<"tab", new_tabs[k], "new content added">> >>]]

\* removed_tab_changes without the set difference
removed_tab_changes_all(ord, case_url, case_number, prev_tabs, curr_tabs, now) ==
    LET removed_tabs == SetIter(ord, DOMAIN prev_tabs)
    IN [k \in 1..Len(removed_tabs) |->
          [type |-> "removed_tab", case_url |-> case_url, case_number |-> case_number,
           tab_number |-> removed_tabs[k], timestamp |-> now,
           message |-> <<"tab removed", removed_tabs[k]>>,
           details |-> << <<"tab", removed_tabs[k], "completely removed">> >>]]

removed_tab_changes(ord, case_url, case_number, prev_tabs, curr_tabs, now) ==
    LET removed_tabs == SetIter(ord, DOMAIN prev_tabs \ DOMAIN curr_tabs)
    IN [k \in 1..Len(removed_tabs) |->
          [type |-> "removed_tab", case_url |-> case_url, case_number |-> case_number,
           tab_number |-> removed_tabs[k], timestamp |-> now,
           message |-> <<"tab removed", removed_tabs[k]>>,
           details |-> << <<"tab", removed_tabs[k], "completely removed">> >>]]

\* tab_change that passes the diff on as it is
tab_change_no_placeholder(case_url, case_number, tab_num, prev_state, entry, now) ==
    LET prev_tabs == Get(prev_state, "tabs_hashes", <<>>)
        prev_tabs_content == Get(prev_state, "tabs_content", <<>>)
        old_content == Get(prev_tabs_content, tab_num, [markup |-> "", text |-> <<>>])
        new_content == Get(entry.tabs_content, tab_num, [markup |-> "", text |-> <<>>])
        text_changes == compare_text_content(extract_text_content(old_content),
                                             extract_text_content(new_content))
    IN IF prev_tabs[tab_num] # entry.tabs_hashes[tab_num]
       THEN << [type |-> "tab_changed", case_url |-> case_url,
                case_number |-> case_number, tab_number |-> tab_num,
                timestamp |-> now, message |-> <<"tab content changed", tab_num>>,
                details |-> text_changes] >>
       ELSE <<>>

tab_change(case_url, case_number, tab_num, prev_state, entry, now) ==
    LET prev_tabs == Get(prev_state, "tabs_hashes", <<>>)
        prev_tabs_content == Get(prev_state, "tabs_content", <<>>)
        old_content == Get(prev_tabs_content, tab_num, [markup |-> "", text |-> <<>>])
        new_content == Get(entry.tabs_content, tab_num, [markup |-> "", text |-> <<>>])
        text_changes == compare_text_content(extract_text_content(old_content),
                                             extract_text_content(new_content))
    IN IF prev_tabs[tab_num] # entry.tabs_hashes[tab_num]
       THEN << [type |-> "tab_changed", case_url |-> case_url,
                case_number |-> case_number, tab_number |-> tab_num,
                timestamp |-> now, message |-> <<"tab content changed", tab_num>>,
                details |-> IF text_changes # <<>> THEN text_changes
                            ELSE << <<"content changed (details undetermined)">> >>] >>
       ELSE <<>>

changed_tab_changes(ord, case_url, case_number, prev_state, entry, now) ==
    LET prev_tabs == Get(prev_state, "tabs_hashes", <<>>)
        common == SetIter(ord, DOMAIN prev_tabs \cap DOMAIN entry.tabs_hashes)
    IN Concat([k \in 1..Len(common) |->
                 tab_change(case_url, case_number, common[k], prev_state, entry, now)])

\* track_case_changes without the early return of the new-case branch: the
\* tab comparison then runs against an empty previous entry
track_case_changes_no_return(ord, prev_states, case_url, case_data, now) ==
    LET case_number == Get(case_data, "case_number", "N/A")
        entry == StateEntry(case_data, now)
    IN IF ~DictHas(prev_states, case_url)
       THEN new_case_change(case_url, case_number, now)
            \o new_tab_changes(ord, case_url, case_number, <<>>, entry.tabs_hashes, now)
       ELSE LET prev_state == DictGet(prev_states, case_url)
            IN case_number_change(case_url, case_number, prev_state, now)
               \o check_field_changes(case_url, case_number, case_data, prev_state, now)
               \o content_change(case_url, case_number, prev_state, entry, now)
               \o new_tab_changes(ord, case_url, case_number,
                                  Get(prev_state, "tabs_hashes", <<>>),
                                  entry.tabs_hashes, now)
               \o removed_tab_changes(ord, case_url, case_number,
                                      Get(prev_state, "tabs_hashes", <<>>),
                                      entry.tabs_hashes, now)
               \o changed_tab_changes(ord, case_url, case_number, prev_state, entry, now)

\* track_case_changes with the content check ahead of the field check
track_case_changes_content_first(ord, prev_states, case_url, case_data, now) ==
    LET case_number == Get(case_data, "case_number", "N/A")
        entry == StateEntry(case_data, now)
    IN IF ~DictHas(prev_states, case_url)
       THEN new_case_change(case_url, case_number, now)
       ELSE LET prev_state == DictGet(prev_states, case_url)
            IN case_number_change(case_url, case_number, prev_state, now)
               \o content_change(case_url, case_number, prev_state, entry, now)
               \o check_field_changes(case_url, case_number, case_data, prev_state, now)
               \o new_tab_changes(ord, case_url, case_number,
                                  Get(prev_state, "tabs_hashes", <<>>),
                                  entry.tabs_hashes, now)
               \o removed_tab_changes(ord, case_url, case_number,
                                      Get(prev_state, "tabs_hashes", <<>>),
                                      entry.tabs_hashes, now)
               \o changed_tab_changes(ord, case_url, case_number, prev_state, entry, now)

\* the changes list returned by track_case_changes (detailed_changes is the
\* same list: every change is appended to both)
track_case_changes(ord, prev_states, case_url, case_data, now) ==
    LET case_number == Get(case_data, "case_number", "N/A")
        entry == StateEntry(case_data, now)
    IN IF ~DictHas(prev_states, case_url)
       THEN new_case_change(case_url, case_number, now)
       ELSE LET prev_state == DictGet(prev_states, case_url)
            IN case_number_change(case_url, case_number, prev_state, now)
               \o check_field_changes(case_url, case_number, case_data, prev_state, now)
               \o content_change(case_url, case_number, prev_state, entry, now)
               \o new_tab_changes(ord, case_url, case_number,
                                  Get(prev_state, "tabs_hashes", <<>>),
                                  entry.tabs_hashes, now)
               \o removed_tab_changes(ord, case_url, case_number,
                                      Get(prev_state, "tabs_hashes", <<>>),
                                      entry.tabs_hashes, now)
               \o changed_tab_changes(ord, case_url, case_number, prev_state, entry, now)

(***************************************************************************)
(* Report builder                                                          *)
(***************************************************************************)
\* changes_by_case[case_key].append(change), creating the list when missing
DictAppend(d, k, e) ==
    IF DictHas(d, k)
    THEN [n \in 1..Len(d) |-> IF d[n][1] = k THEN <<k, Append(d[n][2], e)>> ELSE d[n]]
    ELSE Append(d, <<k, <<e>>>>)

\* the grouping loop of print_changes_summary: the key of a change is its
\* case_number when it has that key, else its case_url
RECURSIVE group_into(_, _)
group_into(changes_by_case, detailed_changes) ==
    IF detailed_changes = <<>> THEN changes_by_case
    ELSE LET change == Head(detailed_changes)
             case_key == Get(change, "case_number", Get(change, "case_url", "unknown"))
         IN group_into(DictAppend(changes_by_case, case_key, change),
                       Tail(detailed_changes))

changes_by_case(detailed_changes) == group_into(<<>>, detailed_changes)

(***************************************************************************)
(* Inputs: the pages the remote source can serve                           *)
(***************************************************************************)
\* raw tab contents: c_markup differs from c_base in markup only, c_text in
\* a visible line, c_plus in a visible line that starts with "++"
c_base   == [markup |-> "m1", text |-> << <<"a">> >>]
c_markup == [markup |-> "m2", text |-> << <<"a">> >>]
c_text   == [markup |-> "m1", text |-> << <<"b">>, <<"a">> >>]
c_plus   == [markup |-> "m1", text |-> << <<"a">>, <<"+", "+">> >>]

FieldSet == {fields_to_check[k] : k \in 1..Len(fields_to_check)}
Tab1Fields == {"judge", "date_of_receipt", "result_of_consideration"}

\* assignments of the six scraped fields with at most one of them set
FieldAssignments(vals) ==
    {fa \in [FieldSet -> {None} \cup vals] :
        Cardinality({f \in FieldSet : fa[f] # None}) <= 1}

\* tab id -> raw content, for every subset of the tab ids
TabMaps(contents) ==
    UNION {[ids -> contents] : ids \in SUBSET TabIds}

MkPage(fa, cn, tabs) ==
    [sub_category |-> fa["sub_category"], instance |-> fa["instance"],
     case_number |-> cn, material_number |-> fa["material_number"],
     judge |-> fa["judge"], date_of_receipt |-> fa["date_of_receipt"],
     result_of_consideration |-> fa["result_of_consideration"],
     tabs |-> tabs]

\* the tab-1 fields are scraped from tab 1: without it they are None
Pages(vals, numbers, contents) ==
    {MkPage(fa, cn, tabs) :
        fa \in FieldAssignments(vals), cn \in numbers, tabs \in TabMaps(contents)}
    \cap {pg \in [sub_category : {None} \cup vals, instance : {None} \cup vals,
                  case_number : numbers, material_number : {None} \cup vals,
                  judge : {None} \cup vals, date_of_receipt : {None} \cup vals,
                  result_of_consideration : {None} \cup vals,
                  tabs : TabMaps(contents)] :
            "1" \in DOMAIN pg.tabs \/ \A f \in Tab1Fields : pg[f] = None}

PrevPages == Pages({"v1"}, {None, "", "n1"}, {c_base})
CurPages  == Pages({"v1", "v2"}, {None, "", "n1", "n2"}, {c_base, c_markup, c_text, c_plus})

NoFields == [f \in FieldSet |-> None]
RunPages ==
    { MkPage([NoFields EXCEPT !["judge"] = "v1"], "n1", [t \in {"1"} |-> c_base]),
      MkPage([NoFields EXCEPT !["judge"] = "v2"], "n1", [t \in {"1", "2"} |-> c_base]),
      MkPage(NoFields, None, <<>>) }

(***************************************************************************)
(* State store                                                             *)
(***************************************************************************)
\* text: the entries written in full; closed: the closing brace is there;
\* torn: the bytes end inside a multi-byte UTF-8 character
NoFile == [exists |-> FALSE, text |-> <<>>, closed |-> FALSE, torn |-> FALSE]

\* json.dump of a whole state: one chunk per entry, then the closing brace
JsonText(state) == [exists |-> TRUE, text |-> state, closed |-> TRUE, torn |-> FALSE]

\* open(..., encoding='utf-8') + json.load on bytes that are not UTF-8 raises
\* UnicodeDecodeError, which is neither a JSONDecodeError nor an IOError
LoadRaises(f) == f.exists /\ f.torn

\* load_previous_state when it returns: a missing file or a text that does
\* not parse gives {}
load_previous_state(f) ==
    IF f.exists /\ f.closed /\ ~f.torn THEN f.text ELSE <<>>

(***************************************************************************)
(* main()                                                                  *)
(***************************************************************************)
Init ==
    /\ file = NoFile
    /\ clock = 0
    /\ pc = "idle"
    /\ run = 0
    /\ order = SortedTabIds
    /\ previous_state = <<>>
    /\ current_state = <<>>
    /\ case_links = <<>>
    /\ i = 1
    /\ results = <<>>
    /\ all_changes = <<>>
    /\ all_detailed_changes = <<>>
    /\ save_pos = 0
    /\ loaded_file = NoFile
    /\ observed = <<>>

\* a new process: CaseChangeTracker(), load_cases, get_case_links; main
\* returns at once when there are no links
StartRun ==
    /\ pc = "idle"
    /\ run < MaxRuns
    /\ ~LoadRaises(file)
    /\ run' = run + 1
    /\ clock' = clock + 1
    /\ order' \in Perms(TabIds)
    /\ previous_state' = load_previous_state(file)
    /\ loaded_file' = file
    /\ current_state' = <<>>
    /\ case_links' \in SeqsOver(Urls, MaxLinks)
    /\ i' = 1
    /\ results' = <<>>
    /\ all_changes' = <<>>
    /\ all_detailed_changes' = <<>>
    /\ save_pos' = 0
    /\ pc' = IF case_links' = <<>> THEN "nolinks" ELSE "loop"
    /\ UNCHANGED <<file, observed>>

\* a new process whose CaseChangeTracker() raises in load_previous_state:
\* main's "except Exception" logs it and main ends without processing
StartRunAbort ==
    /\ pc = "idle"
    /\ run < MaxRuns
    /\ LoadRaises(file)
    /\ run' = run + 1
    /\ clock' = clock + 1
    /\ order' \in Perms(TabIds)
    /\ loaded_file' = file
    /\ pc' = "aborted"
    /\ UNCHANGED <<file, previous_state, current_state, case_links, i, results,
                   all_changes, all_detailed_changes, save_pos, observed>>

\* get_content returned None: the link is recorded as failed and skipped
FetchFail ==
    /\ pc = "loop"
    /\ i <= Len(case_links)
    /\ results' = Append(results, [url |-> case_links[i], success |-> FALSE,
                                   error |-> "no content"])
    /\ i' = i + 1
    /\ UNCHANGED <<file, clock, pc, run, order, previous_state, current_state,
                   case_links, all_changes, all_detailed_changes, save_pos, loaded_file, observed>>

\* an iteration whose tracking also stores the new summary in previous_state
Process_updates_baseline(pages) ==
    /\ pc = "loop"
    /\ i <= Len(case_links)
    /\ \E page \in pages :
          LET link == case_links[i]
              case_data == parse_case_data(page, clock)
              changes == track_case_changes(order, previous_state, link, case_data, clock)
          IN /\ current_state' = DictSet(current_state, link, StateEntry(case_data, clock))
             /\ previous_state' = DictSet(previous_state, link, StateEntry(case_data, clock))
             /\ all_changes' = all_changes \o changes
             /\ all_detailed_changes' = all_detailed_changes \o changes
             /\ results' = Append(results,
                                  [url |-> link, data |-> case_data,
                                   success |-> case_data["parsing_success"],
                                   changes |-> changes, detailed_changes |-> changes])
    /\ i' = i + 1
    /\ UNCHANGED <<file, clock, pc, run, order, case_links, save_pos, loaded_file,
                   observed>>

\* one iteration with content: parse_case_data, track_case_changes, bookkeeping
Process(pages) ==
    /\ pc = "loop"
    /\ i <= Len(case_links)
    /\ \E page \in pages :
          LET link == case_links[i]
              case_data == parse_case_data(page, clock)
              changes == track_case_changes(order, previous_state, link, case_data, clock)
          IN /\ current_state' = DictSet(current_state, link, StateEntry(case_data, clock))
             /\ all_changes' = all_changes \o changes
             /\ all_detailed_changes' = all_detailed_changes \o changes
             /\ results' = Append(results,
                                  [url |-> link, data |-> case_data,
                                   success |-> case_data["parsing_success"],
                                   changes |-> changes, detailed_changes |-> changes])
    /\ i' = i + 1
    /\ UNCHANGED <<file, clock, pc, run, order, previous_state, case_links,
                   save_pos, loaded_file, observed>>

\* save_current_state: open(state_file, 'w') truncates the file
SaveOpen ==
    /\ pc = "loop"
    /\ i > Len(case_links)
    /\ file' = [exists |-> TRUE, text |-> <<>>, closed |-> FALSE, torn |-> FALSE]
    /\ save_pos' = 0
    /\ pc' = "save_write"
    /\ UNCHANGED <<clock, run, order, previous_state, current_state, case_links, i,
                   results, all_changes, all_detailed_changes, loaded_file, observed>>

\* open() raises IOError: caught and logged, nothing written
SaveOpenFail ==
    /\ pc = "loop"
    /\ i > Len(case_links)
    /\ pc' = "save_failed"
    /\ UNCHANGED <<file, clock, run, order, previous_state, current_state, case_links, i,
                   results, all_changes, all_detailed_changes, save_pos, loaded_file, observed>>

\* json.dump writes the next entry of current_state
SaveWrite ==
    /\ pc = "save_write"
    /\ save_pos < Len(current_state)
    /\ file' = [file EXCEPT !.text = Append(@, current_state[save_pos + 1])]
    /\ save_pos' = save_pos + 1
    /\ UNCHANGED <<clock, pc, run, order, previous_state, current_state, case_links, i,
                   results, all_changes, all_detailed_changes, loaded_file, observed>>

\* json.dump writes the closing brace and the with-block closes the file
SaveClose ==
    /\ pc = "save_write"
    /\ save_pos = Len(current_state)
    /\ file' = [file EXCEPT !.closed = TRUE]
    /\ pc' = "report"
    /\ observed' = [u \in DOMAIN observed \cup DictKeys(current_state) |->
                       IF DictHas(current_state, u) THEN DictGet(current_state, u)
                       ELSE observed[u]]
    /\ UNCHANGED <<clock, run, order, previous_state, current_state, case_links, i,
                   results, all_changes, all_detailed_changes, save_pos, loaded_file>>

\* a write raises IOError (disk full, ...): caught and logged, the file keeps
\* the bytes written so far, which may end inside a multi-byte character of
\* the entry that was being written
SaveWriteFail ==
    /\ pc = "save_write"
    /\ \/ UNCHANGED file
       \/ /\ save_pos < Len(current_state)
          /\ file' = [file EXCEPT !.torn = TRUE]
    /\ pc' = "save_failed"
    /\ UNCHANGED <<clock, run, order, previous_state, current_state, case_links, i,
                   results, all_changes, all_detailed_changes, save_pos, loaded_file, observed>>

\* the process ends: its memory is gone, only the file and the clock remain
Exit ==
    /\ pc' = "idle"
    /\ previous_state' = <<>>
    /\ current_state' = <<>>
    /\ case_links' = <<>>
    /\ i' = 1
    /\ results' = <<>>
    /\ all_changes' = <<>>
    /\ all_detailed_changes' = <<>>
    /\ save_pos' = 0
    /\ loaded_file' = NoFile
    /\ UNCHANGED <<file, clock, run, order, observed>>

\* save_changes_report and save_results, then main returns
Report ==
    /\ pc \in {"report", "save_failed", "nolinks"}
    /\ Exit

\* the end of a process that failed to build its tracker
CriticalExit ==
    /\ pc = "aborted"
    /\ Exit

\* KeyboardInterrupt: caught at the end of main, which only logs it
Interrupt ==
    /\ pc \in {"loop", "save_write", "report", "save_failed"}
    /\ Exit

Next ==
    \/ StartRun
    \/ StartRunAbort
    \/ CriticalExit
    \/ FetchFail
    \/ Process(RunPages)
    \/ SaveOpen
    \/ SaveOpenFail
    \/ SaveWrite
    \/ SaveClose
    \/ SaveWriteFail
    \/ Report
    \/ Interrupt

Spec == Init /\ [][Next]_vars

(***************************************************************************)
(* The detector alone: one call of track_case_changes on a previous state  *)
(* for "u1" (or none) saved at time 0 and any current page                 *)
(***************************************************************************)
DetectPrevStates ==
    {<<>>} \cup {<< <<"u1", StateEntry(parse_case_data(pg, 0), 0)>> >> : pg \in PrevPages}

DetectInit ==
    /\ file = NoFile
    /\ clock \in {0, 1}
    /\ pc = "loop"
    /\ run = 1
    /\ order \in Perms(TabIds)
    /\ previous_state \in DetectPrevStates
    /\ current_state = <<>>
    /\ case_links = <<"u1">>
    /\ i = 1
    /\ results = <<>>
    /\ all_changes = <<>>
    /\ all_detailed_changes = <<>>
    /\ save_pos = 0
    /\ loaded_file = NoFile
    /\ observed = <<>>

DetectNext == Process(CurPages)

SpecDetect == DetectInit /\ [][DetectNext]_vars

(***************************************************************************)
(* Properties                                                              *)
(***************************************************************************)
\* the result items of links that were tracked / whose fetch failed
Tracked == {k \in 1..Len(results) : "changes" \in DOMAIN results[k]}
Failed == {k \in 1..Len(results) : "changes" \notin DOMAIN results[k]}

HasPrev(k) == DictHas(previous_state, results[k].url)
PrevOf(k) == DictGet(previous_state, results[k].url)

\* what a case_data says about the page, without the parsing timestamps
PageOf(case_data) ==
    [fields |-> [f \in DOMAIN case_data \ {"tabs", "parsing_timestamp"} |-> case_data[f]],
     tabs |-> [t \in DOMAIN case_data["tabs"] |-> case_data["tabs"][t]["raw_content"]]]

\* C1: an identity without an entry in the loaded previous state gets exactly
\* one event, a new_case event, whatever its page contains; and once the
\* run's save has completed the state file holds a summary for it.
C1_NewRecordLaw ==
    /\ \A k \in Tracked :
          ~HasPrev(k) =>
              /\ Len(results[k].changes) = 1
              /\ results[k].changes[1].type = "new_case"
              /\ results[k].changes[1].case_url = results[k].url
    /\ pc = "report" =>
          \A k \in Tracked :
              ~HasPrev(k) => DictHas(load_previous_state(file), results[k].url)

\* C1 witness: the save has completed in a run that tracked an unseen
\* identity whose page has tabs, next to an identity that was already known
C1_Witness ==
    /\ pc = "report"
    /\ previous_state # <<>>
    /\ \E k \in Tracked : ~HasPrev(k) /\ DOMAIN results[k].data["tabs"] # {}

\* C2: a record saved by one run and fetched again by the next run with the
\* same fields and the same tab contents yields no event at all.
C2_NoChangeAcrossRuns ==
    \A k \in Tracked :
        (HasPrev(k) /\ PageOf(PrevOf(k).case_data) = PageOf(results[k].data))
            => results[k].changes = <<>>

\* C3: after the final save of a run, an identity whose fetch failed in this
\* run (and that was not tracked in it) still has, in the state file, the
\* summary it had before the run.
C3_SkippedIdentityKeepsSummary ==
    pc = "report" =>
        \A k \in Failed :
            LET u == results[k].url
            IN (DictHas(previous_state, u) /\ \A j \in Tracked : results[j].url # u)
                   => /\ DictHas(load_previous_state(file), u)
                      /\ DictGet(load_previous_state(file), u) = DictGet(previous_state, u)

\* C11: when the file this process loaded was missing or malformed, the run
\* is not aborted, the previous state is empty and every tracked record got
\* exactly one new_case event.
C11_LoadFailureDegrades ==
    (pc # "idle" /\ (~loaded_file.exists \/ ~loaded_file.closed \/ loaded_file.torn))
        => /\ pc # "aborted"
           /\ previous_state = <<>>
           /\ \A k \in Tracked :
                 /\ Len(results[k].changes) = 1
                 /\ results[k].changes[1].type = "new_case"

\* the step of a process that is in the record loop and ends without a save
CancelledInLoop == pc = "loop" /\ pc' = "idle"

\* C12: when a stop signal ends the record loop, the run leaves in the state
\* file the summary of every record whose detection had completed.
C12_CancellationSavesProgress ==
    [][CancelledInLoop =>
          \A k \in Tracked :
              /\ DictHas(load_previous_state(file'), results[k].url)
              /\ DictGet(load_previous_state(file'), results[k].url)
                    = DictGet(current_state, results[k].url)]_vars

\* the identities on this run's link list
Linked == {case_links[n] : n \in 1..Len(case_links)}

\* C13: after a run's save the state file holds a summary exactly for the
\* identities saved by this or an earlier run, and it is the latest one
\* (stated for the identities still on the run's link list).
C13_StoreInvariant ==
    pc = "report" =>
        LET stored == load_previous_state(file)
        IN /\ DictKeys(stored) \subseteq DOMAIN observed
           /\ \A u \in DOMAIN observed \cap Linked :
                 /\ DictHas(stored, u)
                 /\ DictGet(stored, u) = observed[u]

\* C10: while a save is under way, and after it failed, the state file still
\* loads to the complete state that was durable before the save.
C10_AtomicSave ==
    pc \in {"save_write", "save_failed"} =>
        load_previous_state(file) = load_previous_state(loaded_file)

\* the events of one kind in a change list, and the tabs they are about
OfType(changes, ty) == SelectSeq(changes, LAMBDA e : e.type = ty)
TabNumbers(changes, ty) ==
    LET evs == OfType(changes, ty) IN [n \in 1..Len(evs) |-> evs[n].tab_number]
FieldEvents(changes, f) ==
    SelectSeq(changes, LAMBDA e : e.type = "field_changed" /\ e.field = f)
Range(seq) == {seq[n] : n \in 1..Len(seq)}
NoDup(seq) == Cardinality(Range(seq)) = Len(seq)
SectionTypes == {"new_tab", "removed_tab", "tab_changed"}

\* the law of one field: one field_changed event with the old and the new
\* value when the value differs, none when it does not
FieldLaw(k, f) ==
    LET old == Get(PrevOf(k).case_data, f, None)
        new == Get(results[k].data, f, None)
        evs == FieldEvents(results[k].changes, f)
    IN IF old # new
       THEN /\ Len(evs) = 1
            /\ evs[1].previous_value = old
            /\ evs[1].current_value = new
       ELSE evs = <<>>

\* the core field names of the previous summary and of the current snapshot
CoreFieldNames(k) ==
    (DOMAIN PrevOf(k).case_data \cup DOMAIN results[k].data)
        \ {"tabs", "parsing_timestamp", "parsing_success"}

\* C4 as stated: every core field name of either snapshot, case_number
\* included, obeys the field law.
C4_FieldUnionLaw ==
    \A k \in Tracked : HasPrev(k) => \A f \in CoreFieldNames(k) : FieldLaw(k, f)

\* C4 amended: each of the six fields of fields_to_check obeys the field
\* law, and no field_changed event is about any other field (a changed case
\* number is not reported as a field change).
C4_CheckedFieldLaw ==
    \A k \in Tracked :
        HasPrev(k) =>
            /\ \A f \in FieldSet : FieldLaw(k, f)
            /\ \A e \in Range(OfType(results[k].changes, "field_changed")) :
                  e.field \in FieldSet

\* C4 witness: a value was removed from one field and added to another while
\* the case number changed too
C4_Witness ==
    \E k \in Tracked :
        /\ HasPrev(k)
        /\ Len(OfType(results[k].changes, "field_changed")) = 2
        /\ PrevOf(k).case_data["case_number"] # results[k].data["case_number"]

\* the law of the case number under a condition on the pair (old, new)
NumberLaw(k, reported(_, _)) ==
    LET old == Get(PrevOf(k), "case_number", None)
        new == Get(results[k].data, "case_number", None)
        evs == OfType(results[k].changes, "case_number_changed")
    IN IF reported(old, new)
       THEN /\ Len(evs) = 1
            /\ evs[1].previous_case_number = old
            /\ evs[1].current_case_number = new
       ELSE evs = <<>>

\* C5 as stated: one case_number_changed event with both values whenever the
\* stored and the current case number differ, absent or empty ones included.
C5_NumberChangedWheneverDifferent ==
    \A k \in Tracked : HasPrev(k) => NumberLaw(k, LAMBDA old, new : old # new)

\* C5 amended: one case_number_changed event with both values whenever the
\* stored case number is present and not empty and differs from the current
\* one (which may be absent or empty); none when they are equal or when the
\* stored one is absent or empty.
C5_NumberChangedWhenStoredPresent ==
    \A k \in Tracked :
        HasPrev(k) => NumberLaw(k, LAMBDA old, new : Truthy(old) /\ old # new)

\* C5 witness: the stored case number was present and the current page has none
C5_Witness ==
    \E k \in Tracked :
        /\ HasPrev(k)
        /\ PrevOf(k).case_number = "n1"
        /\ results[k].data["case_number"] = None
        /\ Len(OfType(results[k].changes, "case_number_changed")) = 1

\* C6: new_tab events are about exactly the tabs only the current snapshot
\* has, removed_tab events about exactly the tabs only the previous summary
\* has, one event each; a tab in both with an equal hash gets no tab event.
C6_SectionSymmetricDifference ==
    \A k \in Tracked :
        HasPrev(k) =>
            LET prevIds == DOMAIN PrevOf(k).tabs_hashes
                curIds == DOMAIN results[k].data["tabs"]
                added == TabNumbers(results[k].changes, "new_tab")
                removed == TabNumbers(results[k].changes, "removed_tab")
            IN /\ NoDup(added) /\ Range(added) = curIds \ prevIds
               /\ NoDup(removed) /\ Range(removed) = prevIds \ curIds
               /\ \A t \in prevIds \cap curIds :
                     PrevOf(k).tabs_hashes[t]
                         = calculate_content_hash(results[k].data["tabs"][t]["raw_content"])
                     => \A e \in Range(results[k].changes) :
                           e.type \in SectionTypes => e.tab_number # t

\* C6 witness: tab 1 is in both with the same content, tab 2 only in the
\* current snapshot
C6_Witness ==
    \E k \in Tracked :
        /\ HasPrev(k)
        /\ DOMAIN PrevOf(k).tabs_hashes = {"1"}
        /\ DOMAIN results[k].data["tabs"] = {"1", "2"}
        /\ results[k].data["tabs"]["1"]["raw_content"] = PrevOf(k).tabs_content["1"]
        /\ TabNumbers(results[k].changes, "new_tab") = <<"2">>

\* the step of the algorithm that emits a kind of event
StepOf(ty) ==
    CASE ty = "new_case" -> 0
      [] ty = "case_number_changed" -> 1
      [] ty = "field_changed" -> 2
      [] ty = "content_changed" -> 3
      [] ty = "new_tab" -> 4
      [] ty = "removed_tab" -> 5
      [] ty = "tab_changed" -> 6

\* C7: in every returned list the events come in step order: case number,
\* fields, content, then tabs added, tabs removed, tabs changed.
C7_EmissionOrder ==
    \A k \in Tracked :
        \A m, n \in 1..Len(results[k].changes) :
            m < n => StepOf(results[k].changes[m].type) <= StepOf(results[k].changes[n].type)

\* C7 witness: one list with a case number event, a field event, the content
\* event, an added tab and a changed tab
C7_Witness ==
    \E k \in Tracked :
        {results[k].changes[n].type : n \in 1..Len(results[k].changes)}
            = {"case_number_changed", "field_changed", "content_changed",
               "new_tab", "tab_changed"}

\* position of a tab identifier in ascending order
RankOf(t) == CHOOSE n \in 1..Len(SortedTabIds) : SortedTabIds[n] = t
Ascending(seq) == \A m, n \in 1..Len(seq) : m < n => RankOf(seq[m]) < RankOf(seq[n])

\* C8: the events of a call are the events of any call on the same pair,
\* whatever the iteration order of the process's sets, and the tab events of
\* each kind come sorted by tab identifier.
C8_Determinism ==
    \A k \in Tracked :
        /\ \A o \in Perms(TabIds) :
              track_case_changes(o, previous_state, results[k].url,
                                 results[k].data, clock) = results[k].changes
        /\ \A ty \in SectionTypes : Ascending(TabNumbers(results[k].changes, ty))

Placeholder == << <<"content changed (details undetermined)">> >>

\* C9: every event has at least one details line, and a tab_changed event
\* whose text diff has no line has exactly the placeholder line.
C9_DetailsNonEmpty ==
    \A k \in Tracked :
        \A e \in Range(results[k].changes) :
            /\ Len(e.details) >= 1
            /\ (e.type = "tab_changed"
                /\ compare_text_content(
                       extract_text_content(PrevOf(k).tabs_content[e.tab_number]),
                       extract_text_content(
                           results[k].data["tabs"][e.tab_number]["raw_content"])) = <<>>)
               => e.details = Placeholder

\* C9 witness: a tab whose markup changed and whose visible text did not
C9_Witness ==
    \E k \in Tracked :
        \E e \in Range(results[k].changes) :
            /\ e.type = "tab_changed"
            /\ PrevOf(k).tabs_content[e.tab_number] = c_base
            /\ results[k].data["tabs"][e.tab_number]["raw_content"] = c_markup
            /\ e.details = Placeholder

\* the identities of a change list in the order of their first event
RECURSIVE FirstSeen(_, _)
FirstSeen(seen, changes) ==
    IF changes = <<>> THEN seen
    ELSE FirstSeen(IF Head(changes).case_url \in Range(seen) THEN seen
                   ELSE Append(seen, Head(changes).case_url),
                   Tail(changes))

\* one group per identity, in first-event order, each in emission order
GroupsByIdentity(changes) ==
    LET ids == FirstSeen(<<>>, changes)
    IN [n \in 1..Len(ids) |-> SelectSeq(changes, LAMBDA e : e.case_url = ids[n])]

\* C14: when the report is printed (for a link list that names each record
\* once), its groups are the events of one record each, in emission order,
\* the groups in the order of each record's first event.
C14_GroupedByIdentity ==
    (pc \in {"report", "save_failed"} /\ NoDup(case_links)) =>
        LET groups == changes_by_case(all_detailed_changes)
        IN [n \in 1..Len(groups) |-> groups[n][2]] = GroupsByIdentity(all_detailed_changes)

\* the kinds of event of the fine-grained checks
FineTypes == {"case_number_changed", "field_changed", "new_tab", "removed_tab",
              "tab_changed"}

\* C15: a change list with an event of a fine-grained check (against a
\* summary this tracker wrote) also has a content_changed event, and no
\* change list has more than one content_changed event.
C15_CoarseCoversFine ==
    \A k \in Tracked :
        /\ Len(OfType(results[k].changes, "content_changed")) <= 1
        /\ (HasPrev(k) /\ \E e \in Range(results[k].changes) : e.type \in FineTypes)
              => OfType(results[k].changes, "content_changed") # <<>>

\* C15 witness: a field changed on a page parsed at the very time of the
\* stored summary, so that only the field makes the fingerprints differ
C15_Witness ==
    \E k \in Tracked :
        /\ HasPrev(k)
        /\ PrevOf(k).case_data["parsing_timestamp"] = results[k].data["parsing_timestamp"]
        /\ {results[k].changes[n].type : n \in 1..Len(results[k].changes)}
              = {"field_changed", "content_changed"}

\* a call that found nothing to report, the coarse check included
C15_QuietCall ==
    \E k \in Tracked : HasPrev(k) /\ results[k].changes = <<>>

\* a step of the record loop that tracked the link case_links[i]
TrackStep ==
    /\ pc = "loop"
    /\ Len(results') = Len(results) + 1
    /\ "changes" \in DOMAIN results'[Len(results')]

\* C16: a tracking step leaves the previous state, the state file and every
\* entry of the current state but the tracked one as they are; all through
\* the loop the previous state is the one loaded at construction, so every
\* call for an unseen identity yields the single new_case event; and the
\* state file changes only in the save that follows the loop.
C16_DetectionFrame ==
    /\ [](pc = "loop" =>
            /\ previous_state = load_previous_state(loaded_file)
            /\ \A k \in Tracked :
                  ~DictHas(load_previous_state(loaded_file), results[k].url)
                      => /\ Len(results[k].changes) = 1
                         /\ results[k].changes[1].type = "new_case")
    /\ [][TrackStep =>
             /\ previous_state' = previous_state
             /\ file' = file
             /\ \A u \in DictKeys(current_state) \ {case_links[i]} :
                   /\ DictHas(current_state', u)
                   /\ DictGet(current_state', u) = DictGet(current_state, u)]_vars
    /\ [][file' # file =>
             /\ i > Len(case_links)
             /\ \/ pc = "loop" /\ pc' = "save_write"
                \/ pc = "save_write" /\ pc' \in {"save_write", "report", "save_failed"}]_vars

\* C16 witness: an unseen identity was tracked twice in one run, both times
\* as a new case, and the run has reached the end of its loop
C16_Witness ==
    /\ pc = "loop"
    /\ i > Len(case_links)
    /\ Len(results) = 2
    /\ Tracked = {1, 2}
    /\ results[1].url = results[2].url
    /\ ~HasPrev(1)
    /\ results[1].changes[1].type = "new_case"
    /\ results[2].changes[1].type = "new_case"

====
